---- MODULE Spec2Model ----
(***************************************************************************)
(* Request-governance core of ferriclink-core:                             *)
(*   caches.rs        InMemoryCache / TtlCache  (specification SpecCache)  *)
(*   rate_limiters.rs InMemoryRateLimiter / AdvancedRateLimiter            *)
(*                                              (specification SpecRL)     *)
(*                                                                         *)
(* Time is an integer number of clock ticks.  Instant::now() reads the     *)
(* variable now; the clock is monotonic but two readings may be equal      *)
(* (std::time::Instant only promises "no less than any previous reading"). *)
(* Real-valued token counts are fixed point: one token is TokenUnit units. *)
(***************************************************************************)
EXTENDS Integers, Sequences, FiniteSets, TLC

\* ------------------------------------------------------------------ bounds
MaxTime == 1
MaxCalls == 3
TtlMaxTime == 3
RMaxTime == 3
RMaxCalls == 2

Procs == {"p1", "p2"}
NoProc == "none"

\* (prompt, llm_string) pairs callers use, and the payloads they store
Requests == << <<"A", "m">>, <<"B", "m">>, <<"C", "m">> >>
Values == << "v1", "v2" >>

\* calls each caller may start: p1 a sequence of calls, p2 one call that may
\* overlap any of them
Budget == [p \in Procs |-> IF p = "p1" THEN MaxCalls ELSE 1]
RBudget == [p \in Procs |-> IF p = "p1" THEN RMaxCalls ELSE 1]

\* Option<T> is a sequence of length 0 (None) or 1 (Some(x))
None == << >>
Some(x) == << x >>
IsSome(o) == Len(o) = 1
Unwrap(o) == o[1]

Max(a, b) == IF a >= b THEN a ELSE b
Min(a, b) == IF a <= b THEN a ELSE b

VARIABLES
    now,            \* the monotonic clock read by Instant::now()
    ctor,           \* the constructor calls: their arguments and how they ended
    keyed,          \* the generate_key calls: their arguments and the keys they gave
    \* ---- caches.rs
    cache,          \* InMemoryCache.cache : key -> CacheEntry
    stats,          \* InMemoryCache.stats : CacheStats
    max_size,       \* InMemoryCache.max_size : Option<usize>
    default_ttl,    \* TtlCache.default_ttl, None for a plain InMemoryCache
    cache_lock,     \* the RwLock around cache
    stats_lock,     \* the RwLock around stats
    cp,             \* per caller: the cache call in progress
    calls,          \* number of calls started (bounds the run)
    latest,         \* history: key -> payload and time of its live update
    seen,           \* history: how many of the Requests have been used so far
    done,           \* history: the map parts run so far, in order (when recorded)
    \* ---- rate_limiters.rs
    available_tokens,       \* InMemoryRateLimiter.available_tokens (fixed point)
    last,                   \* InMemoryRateLimiter.last : Option<Instant>
    requests_per_second,    \* tokens (fixed point) added per tick
    max_bucket_size,        \* fixed point
    check_every_n_seconds,  \* ticks
    config,                 \* AdvancedRateLimiter.config : RateLimiterConfig
    tokens_lock,            \* the Mutex around available_tokens: its holder
    last_lock,              \* the Mutex around last: its holder
    rp,                     \* per caller: the limiter call in progress
    rcalls,                 \* number of acquisitions each caller started
    consumed                \* history: consume steps completed, time of the first, successes,
                            \* and (where recorded) the callers in the order their calls began

cvars == << cache, stats, max_size, default_ttl, cache_lock, stats_lock, cp, calls, latest, seen,
           done >>
rvars == << available_tokens, last, requests_per_second, max_bucket_size,
           check_every_n_seconds, config, tokens_lock, last_lock, rp, rcalls, consumed >>
vars == << now, ctor, keyed, cvars, rvars >>

\* ------------------------------------------------------------ caches.rs
EmptyMap == [k \in {} |-> 0]

MapInsert(m, k, e) == [x \in (DOMAIN m) \cup {k} |-> IF x = k THEN e ELSE m[x]]
MapRemove(m, k) == [x \in (DOMAIN m) \ {k} |-> m[x]]

generate_key(prompt, llm_string) == prompt \o "|||" \o llm_string

CacheStats_default ==
    [hits |-> 0, misses |-> 0, updates |-> 0, clears |-> 0,
     current_size |-> 0, max_size_reached |-> 0]

CacheEntry(data, t) ==
    [data |-> data, created_at |-> t, last_accessed |-> t, access_count |-> 0]

\* tokio::sync::RwLock: one writer or any number of readers
Unlocked == [writer |-> NoProc, readers |-> {}]
CanWrite(l) == l.writer = NoProc /\ l.readers = {}
CanRead_unguarded(l) == TRUE
CanRead(l) == l.writer = NoProc
WriteLocked(l, p) == [l EXCEPT !.writer = p]
ReadLocked(l, p) == [l EXCEPT !.readers = @ \cup {p}]
WriteUnlocked(l, p) == IF l.writer = p THEN [l EXCEPT !.writer = NoProc] ELSE l
ReadUnlocked(l, p) == [l EXCEPT !.readers = @ \ {p}]

SyncOps == {"lookup", "update", "clear"}
AsyncOps == {"alookup", "aupdate", "aclear"}
ReadOps == {"stats", "size", "is_empty"}
LookupOps == {"lookup", "alookup"}
UpdateOps == {"update", "aupdate"}
ClearOps == {"clear", "aclear"}

Modes == {"sync", "async", "stats", "read"}
OpsOf(mode) ==
    IF mode = "sync" THEN SyncOps
    ELSE IF mode = "async" THEN AsyncOps
    ELSE IF mode = "stats" THEN {"stats"} ELSE {"size", "is_empty"}

IdleCall ==
    [pc |-> "idle", mode |-> "none", op |-> "none", key |-> "", val |-> "",
     res |-> "none", data |-> "", snap |-> CacheStats_default]

\* with_max_size: Some(0) is rejected
with_max_size(ms) == IF IsSome(ms) /\ ~(Unwrap(ms) > 0) THEN "panic" ELSE "ok"

\* the iteration orders cache.iter() may produce
Orders(S) ==
    {s \in [1..Cardinality(S) -> S] : \A i, j \in 1..Cardinality(S) : i # j => s[i] # s[j]}

\* the eviction scan of update/aupdate
RECURSIVE ScanOldest(_, _, _, _, _)
ScanOldest(c, order, i, oldest_key, oldest_time) ==
    IF i > Len(order) THEN oldest_key
    ELSE IF c[order[i]].last_accessed < oldest_time
         THEN ScanOldest(c, order, i + 1, Some(order[i]), c[order[i]].last_accessed)
         ELSE ScanOldest(c, order, i + 1, oldest_key, oldest_time)

Evict(c, ms, order, t) ==
    IF IsSome(ms) /\ Cardinality(DOMAIN c) >= Unwrap(ms)
    THEN LET oldest_key == ScanOldest(c, order, 1, None, t)
         IN  IF IsSome(oldest_key) THEN MapRemove(c, Unwrap(oldest_key)) ELSE c
    ELSE c

\* (variant: an update of a stored key leaves the stored entry in place)
InMemoryCache_update_keep(c, ms, key, val, order, t) ==
    LET e == Evict(c, ms, order, t)
    IN  IF key \in DOMAIN e THEN e ELSE MapInsert(e, key, CacheEntry(val, t))

\* map part of InMemoryCache::update
InMemoryCache_update(c, ms, key, val, order, t) ==
    MapInsert(Evict(c, ms, order, t), key, CacheEntry(val, t))

\* (variant: a lookup of an absent key answers with a payload)
InMemoryCache_lookup_default(c, key, t) ==
    IF key \in DOMAIN c
    THEN [cache |-> [c EXCEPT ![key].last_accessed = t, ![key].access_count = @ + 1],
          res |-> "Some", data |-> c[key].data]
    ELSE [cache |-> c, res |-> "Some", data |-> Values[1]]

\* map part of InMemoryCache::lookup
InMemoryCache_lookup(c, key, t) ==
    IF key \in DOMAIN c
    THEN [cache |-> [c EXCEPT ![key].last_accessed = t, ![key].access_count = @ + 1],
          res |-> "Some", data |-> c[key].data]
    ELSE [cache |-> c, res |-> "None", data |-> ""]

\* the eviction scan of aupdate
RECURSIVE aupdate_ScanOldest(_, _, _, _, _)
aupdate_ScanOldest(c, order, i, oldest_key, oldest_time) ==
    IF i > Len(order) THEN oldest_key
    ELSE IF c[order[i]].last_accessed < oldest_time
         THEN aupdate_ScanOldest(c, order, i + 1, Some(order[i]), c[order[i]].last_accessed)
         ELSE aupdate_ScanOldest(c, order, i + 1, oldest_key, oldest_time)

\* (variant: aupdate inserts without evicting)
InMemoryCache_aupdate_noevict(c, ms, key, val, order, t) ==
    MapInsert(c, key, CacheEntry(val, t))

\* map part of InMemoryCache::aupdate
InMemoryCache_aupdate(c, ms, key, val, order, t) ==
    LET evicted ==
            IF IsSome(ms) /\ Cardinality(DOMAIN c) >= Unwrap(ms)
            THEN LET oldest_key == aupdate_ScanOldest(c, order, 1, None, t)
                 IN  IF IsSome(oldest_key) THEN MapRemove(c, Unwrap(oldest_key)) ELSE c
            ELSE c
    IN  MapInsert(evicted, key,
                  [data |-> val, created_at |-> t, last_accessed |-> t, access_count |-> 0])

\* map part of InMemoryCache::alookup
InMemoryCache_alookup(c, key, t) ==
    IF key \in DOMAIN c
    THEN [cache |-> [c EXCEPT ![key] = [@ EXCEPT !.last_accessed = t,
                                                !.access_count = @ + 1]],
          res |-> "Some", data |-> c[key].data]
    ELSE [cache |-> c, res |-> "None", data |-> ""]

\* (variant: no entry ever expires)
is_expired_never(entry, ttl, t) == FALSE

\* TtlCache::is_expired: created_at.elapsed() > ttl
is_expired(entry, ttl, t) == (t - entry.created_at) > ttl

\* (variant: a hit starts the entry's lifetime afresh)
TtlCache_lookup_sliding(c, key, ttl, t) ==
    IF key \in DOMAIN c
    THEN IF is_expired(c[key], ttl, t)
         THEN [cache |-> MapRemove(c, key), res |-> "None", data |-> ""]
         ELSE [cache |-> MapInsert(c, key, [c[key] EXCEPT !.created_at = t,
                                                          !.last_accessed = t,
                                                          !.access_count = @ + 1]),
               res |-> "Some", data |-> c[key].data]
    ELSE [cache |-> c, res |-> "None", data |-> ""]

\* (variant: a lookup sweeps every expired entry out)
TtlCache_lookup_sweep(c, key, ttl, t) ==
    LET live == [x \in {y \in DOMAIN c : ~is_expired(c[y], ttl, t)} |-> c[x]]
    IN  IF key \in DOMAIN live
        THEN [cache |-> MapInsert(live, key, [c[key] EXCEPT !.last_accessed = t,
                                                            !.access_count = @ + 1]),
              res |-> "Some", data |-> c[key].data]
        ELSE [cache |-> live, res |-> "None", data |-> ""]

\* map part of TtlCache::lookup
TtlCache_lookup(c, key, ttl, t) ==
    IF key \in DOMAIN c
    THEN IF is_expired(c[key], ttl, t)
         THEN [cache |-> MapRemove(c, key), res |-> "None", data |-> ""]
         ELSE [cache |-> MapInsert(c, key, [c[key] EXCEPT !.last_accessed = t,
                                                          !.access_count = @ + 1]),
               res |-> "Some", data |-> c[key].data]
    ELSE [cache |-> c, res |-> "None", data |-> ""]

\* map part of TtlCache::alookup
TtlCache_alookup(c, key, ttl, t) ==
    IF key \in DOMAIN c
    THEN IF is_expired(c[key], ttl, t)
         THEN [cache |-> MapRemove(c, key), res |-> "None", data |-> ""]
         ELSE LET entry == [c[key] EXCEPT !.last_accessed = t, !.access_count = @ + 1]
              IN  [cache |-> MapInsert(c, key, entry), res |-> "Some", data |-> entry.data]
    ELSE [cache |-> c, res |-> "None", data |-> ""]

\* ---- history of live updates, kept beside the cache for the round-trip claim
Age(k) == now - latest[k].at
Live(k) ==
    /\ k \in DOMAIN latest
    /\ (IsSome(default_ttl) => ~(Age(k) > Unwrap(default_ttl)))

LatestAfterLookup(k) ==
    IF k \in DOMAIN latest /\ ~Live(k) THEN MapRemove(latest, k) ELSE latest

LatestAfterUpdate(k, v, c2) ==
    LET evicted == (DOMAIN cache) \ (DOMAIN c2)
        kept == [x \in (DOMAIN latest) \ evicted |-> latest[x]]
    IN  MapInsert(kept, k, [val |-> v, at |-> now])

\* ---- calls
\* Requests are named in order of first use (the keys are interchangeable)
\* history of the map parts run, kept only where a run is recorded
NotRecorded == [on |-> FALSE, ops |-> << >>]
Record(d, op, key) == IF d.on THEN [d EXCEPT !.ops = Append(@, << op, key >>)] ELSE d

Usable == 1..Min(seen + 1, Len(Requests))
\* and so are the payloads: the first update stores the first of them
UsableValues == IF stats.updates = 0 THEN {Values[1]} ELSE {Values[i] : i \in 1..Len(Values)}

\* A caller enters one of the nine entry points.  Before the body they differ
\* only in how the guards are taken (mode): try_write (lookup, update, clear),
\* write().await (alookup, aupdate, aclear), stats.read then cache.read (stats),
\* cache.read (size, is_empty).  Which entry point of its mode a call is, and
\* its arguments, are local to the call until the body, where they are drawn.
Call(p) ==
    /\ cp[p].pc = "idle"
    /\ calls[p] < Budget[p]
    /\ calls' = [calls EXCEPT ![p] = @ + 1]
    /\ \E mode \in Modes :
         cp' = [cp EXCEPT ![p] =
                  [IdleCall EXCEPT
                     !.pc = IF mode = "stats" THEN "stats_lock" ELSE "cache_lock",
                     !.mode = mode]]
    /\ UNCHANGED << now, cache, stats, max_size, default_ttl, cache_lock, stats_lock, latest, seen, rvars, ctor, keyed, done >>

\* (variant: a call that fails to take the guards is counted as a miss)
TryWrite_counted(p) ==
    /\ cp[p].pc = "cache_lock"
    /\ cp[p].mode = "sync"
    /\ IF CanWrite(cache_lock) /\ CanWrite(stats_lock)
       THEN /\ cache_lock' = WriteLocked(cache_lock, p)
            /\ stats_lock' = WriteLocked(stats_lock, p)
            /\ cp' = [cp EXCEPT ![p].pc = "body"]
            /\ stats' = stats
       ELSE /\ cache_lock' = cache_lock
            /\ stats_lock' = stats_lock
            /\ cp' = [cp EXCEPT ![p].pc = "failed", ![p].res = "Err"]
            /\ stats' = [stats EXCEPT !.misses = @ + 1]
    /\ UNCHANGED << now, cache, max_size, default_ttl, calls, latest, seen, rvars, ctor, keyed, done >>

\* self.cache.try_write() then self.stats.try_write() of lookup / update /
\* clear: neither waits; a guard already taken is dropped by the early return
TryWrite(p) ==
    /\ cp[p].pc = "cache_lock"
    /\ cp[p].mode = "sync"
    /\ IF CanWrite(cache_lock) /\ CanWrite(stats_lock)
       THEN /\ cache_lock' = WriteLocked(cache_lock, p)
            /\ stats_lock' = WriteLocked(stats_lock, p)
            /\ cp' = [cp EXCEPT ![p].pc = "body"]
       ELSE /\ cache_lock' = cache_lock
            /\ stats_lock' = stats_lock
            /\ cp' = [cp EXCEPT ![p].pc = "failed", ![p].res = "Err"]
    /\ UNCHANGED << now, cache, stats, max_size, default_ttl, calls, latest, seen, rvars, ctor, keyed, done >>

\* the `?` after a failed try_write: the call returns the runtime error
ReturnErr(p) ==
    /\ cp[p].pc = "failed"
    /\ cp' = [cp EXCEPT ![p] = IdleCall]
    /\ UNCHANGED << now, cache, stats, max_size, default_ttl, cache_lock, stats_lock, calls, latest, seen, rvars, ctor, keyed, done >>

\* self.cache.write().await of alookup / aupdate / aclear
WriteCache(p) ==
    /\ cp[p].pc = "cache_lock"
    /\ cp[p].mode = "async"
    /\ CanWrite(cache_lock)
    /\ cache_lock' = WriteLocked(cache_lock, p)
    /\ cp' = [cp EXCEPT ![p].pc = "stats_lock"]
    /\ UNCHANGED << now, cache, stats, max_size, default_ttl, stats_lock, calls, latest, seen, rvars, ctor, keyed, done >>

\* self.stats.write().await of alookup / aupdate / aclear
WriteStats(p) ==
    /\ cp[p].pc = "stats_lock"
    /\ cp[p].mode = "async"
    /\ CanWrite(stats_lock)
    /\ stats_lock' = WriteLocked(stats_lock, p)
    /\ cp' = [cp EXCEPT ![p].pc = "body"]
    /\ UNCHANGED << now, cache, stats, max_size, default_ttl, cache_lock, calls, latest, seen, rvars, ctor, keyed, done >>

\* the map part of lookup / alookup (InMemoryCache or TtlCache)
LookupBody(p) ==
    /\ cp[p].pc = "body"
    /\ \E op \in OpsOf(cp[p].mode) \cap LookupOps, i \in Usable :
         LET key == generate_key(Requests[i][1], Requests[i][2])
             l == IF IsSome(default_ttl)
                  THEN IF op \in SyncOps
                       THEN TtlCache_lookup(cache, key, Unwrap(default_ttl), now)
                       ELSE TtlCache_alookup(cache, key, Unwrap(default_ttl), now)
                  ELSE IF op \in SyncOps
                       THEN InMemoryCache_lookup(cache, key, now)
                       ELSE InMemoryCache_alookup(cache, key, now)
         IN  /\ cache' = l.cache
             /\ cp' = [cp EXCEPT ![p].pc = "counters", ![p].op = op, ![p].key = key,
                                 ![p].res = l.res, ![p].data = l.data]
             /\ latest' = LatestAfterLookup(key)
             /\ seen' = Max(seen, i)
             /\ done' = Record(done, op, key)
    /\ UNCHANGED << now, stats, max_size, default_ttl, cache_lock, stats_lock, calls, rvars, ctor, keyed >>

\* the map part of update / aupdate
UpdateBody(p) ==
    /\ cp[p].pc = "body"
    /\ \E op \in OpsOf(cp[p].mode) \cap UpdateOps, i \in Usable, return_val \in UsableValues, order \in Orders(DOMAIN cache) :
         LET key == generate_key(Requests[i][1], Requests[i][2])
             c2 == IF op \in SyncOps
                   THEN InMemoryCache_update(cache, max_size, key, return_val, order, now)
                   ELSE InMemoryCache_aupdate(cache, max_size, key, return_val, order, now)
         IN  /\ cache' = c2
             /\ latest' = LatestAfterUpdate(key, return_val, c2)
             /\ cp' = [cp EXCEPT ![p].pc = "counters", ![p].op = op, ![p].key = key,
                                 ![p].val = return_val, ![p].res = "Ok"]
             /\ seen' = Max(seen, i)
             /\ done' = Record(done, op, key)
    /\ UNCHANGED << now, stats, max_size, default_ttl, cache_lock, stats_lock, calls, rvars, ctor, keyed >>

\* the map part of clear / aclear
ClearBody(p) ==
    /\ cp[p].pc = "body"
    /\ \E op \in OpsOf(cp[p].mode) \cap ClearOps :
         /\ cp' = [cp EXCEPT ![p].pc = "counters", ![p].op = op, ![p].res = "Ok"]
         /\ done' = Record(done, op, "")
    /\ cache' = EmptyMap
    /\ latest' = EmptyMap
    /\ UNCHANGED << now, stats, max_size, default_ttl, cache_lock, stats_lock, calls, seen, rvars, ctor, keyed >>

\* (variant: a hit is counted as a request that missed as well)
StatsAfter_miscounted(st, op, res, len) ==
    IF op \in LookupOps
    THEN IF res = "Some" THEN [st EXCEPT !.hits = @ + 1, !.misses = @ + 1]
         ELSE [st EXCEPT !.misses = @ + 1]
    ELSE IF op \in UpdateOps
         THEN [st EXCEPT !.updates = @ + 1, !.max_size_reached = Max(@, len)]
         ELSE [st EXCEPT !.clears = @ + 1]

\* (variant: clear starts the counters afresh)
StatsAfter_reset(st, op, res, len) ==
    IF op \in LookupOps
    THEN IF res = "Some" THEN [st EXCEPT !.hits = @ + 1] ELSE [st EXCEPT !.misses = @ + 1]
    ELSE IF op \in UpdateOps
         THEN [st EXCEPT !.updates = @ + 1, !.max_size_reached = Max(@, len)]
         ELSE [CacheStats_default EXCEPT !.clears = st.clears + 1]

\* (variant: max_size_reached follows the entry count of the last update)
StatsAfter_latest(st, op, res, len) ==
    IF op \in LookupOps
    THEN IF res = "Some" THEN [st EXCEPT !.hits = @ + 1] ELSE [st EXCEPT !.misses = @ + 1]
    ELSE IF op \in UpdateOps
         THEN [st EXCEPT !.updates = @ + 1, !.max_size_reached = len]
         ELSE [st EXCEPT !.clears = @ + 1]

\* the counter updates that follow the map part
StatsAfter(st, op, res, len) ==
    IF op \in LookupOps
    THEN IF res = "Some" THEN [st EXCEPT !.hits = @ + 1] ELSE [st EXCEPT !.misses = @ + 1]
    ELSE IF op \in UpdateOps
         THEN [st EXCEPT !.updates = @ + 1, !.max_size_reached = Max(@, len)]
         ELSE [st EXCEPT !.clears = @ + 1]

\* the counter part of a mutating call; both guards are dropped on return
Counters(p) ==
    /\ cp[p].pc = "counters"
    /\ stats' = StatsAfter(stats, cp[p].op, cp[p].res, Cardinality(DOMAIN cache))
    /\ stats_lock' = WriteUnlocked(stats_lock, p)
    /\ cache_lock' = WriteUnlocked(cache_lock, p)
    /\ cp' = [cp EXCEPT ![p] = IdleCall]
    /\ UNCHANGED << now, cache, max_size, default_ttl, calls, latest, seen, rvars, ctor, keyed, done >>

\* self.stats.read().await of stats()
ReadStats(p) ==
    /\ cp[p].pc = "stats_lock"
    /\ cp[p].mode = "stats"
    /\ CanRead(stats_lock)
    /\ stats_lock' = ReadLocked(stats_lock, p)
    /\ cp' = [cp EXCEPT ![p].pc = "cache_lock"]
    /\ UNCHANGED << now, cache, stats, max_size, default_ttl, cache_lock, calls, latest, seen, rvars, ctor, keyed, done >>

\* self.cache.read().await of stats() / size() / is_empty() and the value
\* built under the guard(s)
ReadCache(p) ==
    /\ cp[p].pc = "cache_lock"
    /\ cp[p].mode \in {"stats", "read"}
    /\ CanRead(cache_lock)
    /\ cache_lock' = ReadLocked(cache_lock, p)
    /\ \E op \in OpsOf(cp[p].mode) :
         cp' = [cp EXCEPT
                  ![p].pc = "snap",
                  ![p].op = op,
                  ![p].res = IF op = "stats" THEN "Stats"
                             ELSE IF op = "size" THEN "Size"
                             ELSE IF Cardinality(DOMAIN cache) = 0 THEN "Empty"
                             ELSE "NonEmpty",
                  ![p].snap = IF op = "stats"
                              THEN [stats EXCEPT !.current_size = Cardinality(DOMAIN cache)]
                              ELSE IF op = "size"
                                   THEN [CacheStats_default EXCEPT
                                           !.current_size = Cardinality(DOMAIN cache)]
                                   ELSE CacheStats_default]
    /\ UNCHANGED << now, cache, stats, max_size, default_ttl, stats_lock, calls, latest, seen, rvars, ctor, keyed, done >>

\* stats() / size() / is_empty() return; the read guards are dropped
ReturnRead(p) ==
    /\ cp[p].pc = "snap"
    /\ cp' = [cp EXCEPT ![p] = IdleCall]
    /\ stats_lock' = ReadUnlocked(stats_lock, p)
    /\ cache_lock' = ReadUnlocked(cache_lock, p)
    /\ UNCHANGED << now, cache, stats, max_size, default_ttl, calls, latest, seen, rvars, ctor, keyed, done >>

\* the clock advances
Tick ==
    /\ now < MaxTime
    /\ now' = now + 1
    /\ UNCHANGED << cvars, rvars, ctor, keyed >>

\* ------------------------------------------------------ rate_limiters.rs
\* 1.0 token in fixed point: token counts and rates are multiples of 1/TokenUnit
TokenUnit == 2

RateLimiterConfig(exp, max_backoff, initial_backoff, retries) ==
    [use_exponential_backoff |-> exp, max_backoff_duration |-> max_backoff,
     initial_backoff_duration |-> initial_backoff, max_retries |-> retries,
     log_events |-> FALSE]

\* f64 arguments: a number (fixed point) or NaN; every comparison with NaN
\* is false
NaN == [nan |-> TRUE, v |-> 0]
Finite(x) == [nan |-> FALSE, v |-> x]
f64_gt(a, b) == ~a.nan /\ ~b.nan /\ a.v > b.v
f64_ge(a, b) == ~a.nan /\ ~b.nan /\ a.v >= b.v
f64_lt(a, b) == ~a.nan /\ ~b.nan /\ a.v < b.v
f64_le(a, b) == ~a.nan /\ ~b.nan /\ a.v <= b.v

\* (variant: only arguments that are <= 0, or a bucket below one token, are
\* rejected)
InMemoryRateLimiter_new_lenient(rps, check, max_bucket) ==
    IF f64_lt(max_bucket, Finite(TokenUnit)) THEN "panic"
    ELSE IF f64_le(rps, Finite(0)) THEN "panic"
    ELSE IF f64_le(check, Finite(0)) THEN "panic"
    ELSE "ok"

\* the assertions of InMemoryRateLimiter::new
InMemoryRateLimiter_new(rps, check, max_bucket) ==
    IF ~f64_ge(max_bucket, Finite(TokenUnit)) THEN "panic"
    ELSE IF ~f64_gt(rps, Finite(0)) THEN "panic"
    ELSE IF ~f64_gt(check, Finite(0)) THEN "panic"
    ELSE "ok"

\* tokio::sync::Mutex
MutexFree_unguarded(m) == TRUE
MutexFree(m) == m = NoProc

Bucket(tokens, l) == [tokens |-> tokens, last |-> l]

\* (variant: a refill needs more than one whole token's worth of time)
Refilled_strict(b, t, rps) ==
    LET last1 == IF ~IsSome(b.last) THEN Some(t) ELSE b.last
        elapsed == t - Unwrap(last1)
    IN  IF elapsed * rps > TokenUnit
        THEN Bucket(b.tokens + elapsed * rps, Some(t))
        ELSE Bucket(b.tokens, last1)

\* (variant: a refill leaves last where it was)
Refilled_keeplast(b, t, rps) ==
    LET last1 == IF ~IsSome(b.last) THEN Some(t) ELSE b.last
        elapsed == t - Unwrap(last1)
    IN  IF elapsed * rps >= TokenUnit
        THEN Bucket(b.tokens + elapsed * rps, last1)
        ELSE Bucket(b.tokens, last1)

\* (variant: a refill adds one token whatever the time elapsed)
Refilled_onetoken(b, t, rps) ==
    LET last1 == IF ~IsSome(b.last) THEN Some(t) ELSE b.last
        elapsed == t - Unwrap(last1)
    IN  IF elapsed * rps >= TokenUnit
        THEN Bucket(b.tokens + TokenUnit, Some(t))
        ELSE Bucket(b.tokens, last1)

\* consume, first half: first-call initialisation and refill
Refilled(b, t, rps) ==
    LET last1 == IF ~IsSome(b.last) THEN Some(t) ELSE b.last
        elapsed == t - Unwrap(last1)
    IN  IF elapsed * rps >= TokenUnit
        THEN Bucket(b.tokens + elapsed * rps, Some(t))
        ELSE Bucket(b.tokens, last1)

\* (variant: no clamp to the bucket size)
Taken_unclamped(b, max_bucket) ==
    IF b.tokens >= TokenUnit
    THEN [tokens |-> b.tokens - TokenUnit, last |-> b.last, acquired |-> TRUE]
    ELSE [tokens |-> b.tokens, last |-> b.last, acquired |-> FALSE]

\* (variant: a grant does not debit the bucket)
Taken_nodebit(b, max_bucket) ==
    LET clamped == Min(b.tokens, max_bucket)
    IN  [tokens |-> clamped, last |-> b.last, acquired |-> clamped >= TokenUnit]

\* consume, second half: clamp to the bucket size and take one token
Taken(b, max_bucket) ==
    LET clamped == Min(b.tokens, max_bucket)
    IN  IF clamped >= TokenUnit
        THEN [tokens |-> clamped - TokenUnit, last |-> b.last, acquired |-> TRUE]
        ELSE [tokens |-> clamped, last |-> b.last, acquired |-> FALSE]

\* InMemoryRateLimiter::consume as one function of the bucket and the clock
consume(b, t, rps, max_bucket) == Taken(Refilled(b, t, rps), max_bucket)

\* InMemoryRateLimiter::aacquire and AdvancedRateLimiter::acquire_with_retry
\* (which AdvancedRateLimiter::aacquire forwards to)
AcquireOps == {"aacquire", "acquire_with_retry"}

IdleAcq ==
    [pc |-> "idle", op |-> "none", blocking |-> FALSE, retries |-> 0,
     backoff_duration |-> 0, wake |-> 0, res |-> "none", attempts |-> 0,
     t |-> 0, acquired |-> FALSE, nth |-> 0,
     pre |-> Bucket(0, None), post |-> Bucket(0, None), obs |-> 0]

\* what the caller of consume does with its result.
\* InMemoryRateLimiter::acquire / aacquire: return it when not blocking, return
\* true when acquired, else sleep for the check interval and consume again.
\* AdvancedRateLimiter::acquire_with_retry wraps inner.aacquire(blocking) and
\* matches on what that returns.
Returned(r, res) ==
    [r EXCEPT !.pc = "ret", !.res = res]
Sleeping(r, d, t) ==
    [r EXCEPT !.pc = "sleep", !.wake = t + d]
\* (variant: the retry limit is tested before the blocking flag)
AfterInner_exhausted(r, ok, t, cfg) ==
    IF ok THEN Returned(r, "true")
    ELSE IF r.retries >= cfg.max_retries THEN Returned(r, "RateLimitExceeded")
    ELSE IF ~r.blocking THEN Returned(r, "false")
    ELSE [Sleeping(r, r.backoff_duration, t) EXCEPT !.retries = r.retries + 1]

AfterInner(r, ok, t, cfg) ==
    IF ok THEN Returned(r, "true")
    ELSE IF ~r.blocking THEN Returned(r, "false")
    ELSE IF r.retries >= cfg.max_retries THEN Returned(r, "RateLimitExceeded")
    ELSE [Sleeping(r, r.backoff_duration, t) EXCEPT
            !.backoff_duration = IF cfg.use_exponential_backoff
                                 THEN Min(r.backoff_duration * 2, cfg.max_backoff_duration)
                                 ELSE r.backoff_duration,
            !.retries = r.retries + 1]
\* (variant: a non-blocking call waits and tries again as well)
AfterConsume_waiting(r, t, check, cfg) ==
    IF r.acquired
    THEN IF r.op = "acquire_with_retry"
         THEN AfterInner(r, TRUE, t, cfg)
         ELSE Returned(r, "true")
    ELSE Sleeping(r, check, t)

\* (variant: a blocking call gives up after a failed attempt)
AfterConsume_giveup(r, t, check, cfg) ==
    IF r.op = "acquire_with_retry"
    THEN AfterInner(r, r.acquired, t, cfg)
    ELSE Returned(r, IF r.acquired THEN "true" ELSE "false")

\* (variant: acquire_with_retry makes its inner attempt non-blocking)
AfterConsume_inner_nonblocking(r, t, check, cfg) ==
    IF r.op = "acquire_with_retry"
    THEN AfterInner(r, r.acquired, t, cfg)
    ELSE IF ~r.blocking
         THEN Returned(r, IF r.acquired THEN "true" ELSE "false")
         ELSE IF r.acquired THEN Returned(r, "true") ELSE Sleeping(r, check, t)

\* InMemoryRateLimiter::acquire (AdvancedRateLimiter::acquire forwards to it)
\* after handle.block_on(self.consume()) / rt.block_on(self.consume()):
\* return the result when not blocking; when blocking return true once
\* acquired, else std::thread::sleep for the check interval and loop
acquire_AfterConsume(r, t, check) ==
    IF ~r.blocking
    THEN Returned(r, IF r.acquired THEN "true" ELSE "false")
    ELSE IF r.acquired THEN Returned(r, "true") ELSE Sleeping(r, check, t)

AfterConsume(r, t, check, cfg) ==
    IF r.op = "acquire"
    THEN acquire_AfterConsume(r, t, check)
    ELSE IF ~r.blocking
    THEN IF r.op = "acquire_with_retry"
         THEN AfterInner(r, r.acquired, t, cfg)
         ELSE Returned(r, IF r.acquired THEN "true" ELSE "false")
    ELSE IF r.acquired
         THEN IF r.op = "acquire_with_retry"
              THEN AfterInner(r, TRUE, t, cfg)
              ELSE Returned(r, "true")
         ELSE Sleeping(r, check, t)

ClearGhost(r) ==
    [r EXCEPT !.t = 0, !.acquired = FALSE, !.nth = 0,
              !.pre = Bucket(0, None), !.post = Bucket(0, None)]

\* a caller enters acquire / aacquire / acquire_with_retry
Acquire(p) ==
    /\ rp[p].pc = "idle"
    /\ rcalls[p] < RBudget[p]
    /\ rcalls' = [rcalls EXCEPT ![p] = @ + 1]
    /\ \E op \in AcquireOps, blocking \in BOOLEAN :
         rp' = [rp EXCEPT ![p] =
                  [IdleAcq EXCEPT
                     !.pc = "lock_tokens", !.op = op, !.blocking = blocking,
                     !.backoff_duration = IF op = "acquire_with_retry"
                                          THEN config.initial_backoff_duration ELSE 0]]
    /\ UNCHANGED << now, ctor, keyed, cvars, available_tokens, last, requests_per_second, max_bucket_size,
                    check_every_n_seconds, config, tokens_lock, last_lock, consumed >>

\* consume: self.available_tokens.lock().await
LockTokens(p) ==
    /\ rp[p].pc = "lock_tokens"
    /\ MutexFree(tokens_lock)
    /\ tokens_lock' = p
    /\ rp' = [rp EXCEPT ![p].pc = "lock_last"]
    /\ UNCHANGED << now, ctor, keyed, cvars, available_tokens, last, requests_per_second, max_bucket_size,
                    check_every_n_seconds, config, last_lock, rcalls, consumed >>

\* consume: self.last.lock().await
LockLast(p) ==
    /\ rp[p].pc = "lock_last"
    /\ MutexFree(last_lock)
    /\ last_lock' = p
    /\ rp' = [rp EXCEPT ![p].pc = "refill", ![p].pre = Bucket(available_tokens, last)]
    /\ UNCHANGED << now, ctor, keyed, cvars, available_tokens, last, requests_per_second, max_bucket_size,
                    check_every_n_seconds, config, tokens_lock, rcalls, consumed >>

\* consume: read the clock, initialise last on the first call, refill
Refill(p) ==
    /\ rp[p].pc = "refill"
    /\ LET b == Refilled(Bucket(available_tokens, last), now, requests_per_second)
       IN  /\ available_tokens' = b.tokens
           /\ last' = b.last
    /\ rp' = [rp EXCEPT ![p].pc = "take", ![p].t = now]
    /\ UNCHANGED << now, ctor, keyed, cvars, requests_per_second, max_bucket_size,
                    check_every_n_seconds, config, tokens_lock, last_lock, rcalls, consumed >>

\* (variant: a failed consume returns with the token guard still held)
Take_keeplock(p) ==
    /\ rp[p].pc = "take"
    /\ LET b == Taken(Bucket(available_tokens, last), max_bucket_size)
       IN  /\ available_tokens' = b.tokens
           /\ last' = b.last
           /\ rp' = [rp EXCEPT ![p].pc = "after", ![p].acquired = b.acquired,
                               ![p].attempts = @ + 1,
                               ![p].nth = Min(consumed.n + 1, 2),
                               ![p].post = Bucket(b.tokens, b.last)]
    /\ consumed' = [n |-> Min(consumed.n + 1, 2),
                    t0 |-> IF consumed.n = 0 THEN rp[p].t ELSE consumed.t0,
                    ok |-> IF Taken(Bucket(available_tokens, last), max_bucket_size).acquired
                           THEN consumed.ok + 1 ELSE consumed.ok,
                    started |-> consumed.started]
    /\ tokens_lock' = IF tokens_lock = p /\ Taken(Bucket(available_tokens, last), max_bucket_size).acquired
                      THEN NoProc ELSE tokens_lock
    /\ last_lock' = IF last_lock = p THEN NoProc ELSE last_lock
    /\ UNCHANGED << now, ctor, keyed, cvars, requests_per_second, max_bucket_size,
                    check_every_n_seconds, config, rcalls >>

\* consume: clamp, take a token if there is one, return (both guards dropped)
Take(p) ==
    /\ rp[p].pc = "take"
    /\ LET b == Taken(Bucket(available_tokens, last), max_bucket_size)
       IN  /\ available_tokens' = b.tokens
           /\ last' = b.last
           /\ rp' = [rp EXCEPT ![p].pc = "after", ![p].acquired = b.acquired,
                               ![p].attempts = @ + 1,
                               ![p].nth = Min(consumed.n + 1, 2),
                               ![p].post = Bucket(b.tokens, b.last)]
    /\ consumed' = [n |-> Min(consumed.n + 1, 2),
                    t0 |-> IF consumed.n = 0 THEN rp[p].t ELSE consumed.t0,
                    ok |-> IF Taken(Bucket(available_tokens, last), max_bucket_size).acquired
                           THEN consumed.ok + 1 ELSE consumed.ok,
                    started |-> consumed.started]
    /\ tokens_lock' = IF tokens_lock = p THEN NoProc ELSE tokens_lock
    /\ last_lock' = IF last_lock = p THEN NoProc ELSE last_lock
    /\ UNCHANGED << now, ctor, keyed, cvars, requests_per_second, max_bucket_size,
                    check_every_n_seconds, config, rcalls >>

\* the caller of consume acts on its result: return, or go to sleep
Resume(p) ==
    /\ rp[p].pc = "after"
    /\ rp' = [rp EXCEPT ![p] =
                ClearGhost(AfterConsume(rp[p], now, check_every_n_seconds, config))]
    /\ UNCHANGED << now, ctor, keyed, cvars, available_tokens, last, requests_per_second, max_bucket_size,
                    check_every_n_seconds, config, tokens_lock, last_lock, rcalls, consumed >>

\* sleep(..) is over: the loop makes its next attempt
Wake(p) ==
    /\ rp[p].pc = "sleep"
    /\ now >= rp[p].wake
    /\ rp' = [rp EXCEPT ![p].pc = "lock_tokens", ![p].wake = 0]
    /\ UNCHANGED << now, ctor, keyed, cvars, available_tokens, last, requests_per_second, max_bucket_size,
                    check_every_n_seconds, config, tokens_lock, last_lock, rcalls, consumed >>

\* InMemoryRateLimiter::available_tokens
AvailableTokens(p) ==
    /\ rp[p].pc = "idle"
    /\ MutexFree(tokens_lock)
    /\ rp' = [rp EXCEPT ![p] = [IdleAcq EXCEPT !.pc = "ret", !.op = "available_tokens",
                                               !.res = "Tokens", !.obs = available_tokens]]
    /\ UNCHANGED << now, ctor, keyed, cvars, available_tokens, last, requests_per_second, max_bucket_size,
                    check_every_n_seconds, config, tokens_lock, last_lock, rcalls, consumed >>

\* the call returns to its caller
Return(p) ==
    /\ rp[p].pc = "ret"
    /\ rp' = [rp EXCEPT ![p] = IdleAcq]
    /\ UNCHANGED << now, ctor, keyed, cvars, available_tokens, last, requests_per_second, max_bucket_size,
                    check_every_n_seconds, config, tokens_lock, last_lock, rcalls, consumed >>

\* the policies update_config is called with
Configs ==
    {RateLimiterConfig(TRUE, 2, 1, 0), RateLimiterConfig(TRUE, 2, 1, 2),
     RateLimiterConfig(FALSE, 2, 2, 1)}

\* (variant: the limiter is built anew around the new policy)
UpdateConfig_rebuild ==
    /\ \A p \in Procs : rp[p].pc = "idle"
    /\ \E c \in Configs : c # config /\ config' = c
    /\ available_tokens' = TokenUnit
    /\ last' = None
    /\ UNCHANGED << now, ctor, keyed, cvars, requests_per_second, max_bucket_size,
                    check_every_n_seconds, tokens_lock, last_lock, rp, rcalls, consumed >>

\* AdvancedRateLimiter::update_config(&mut self, config): the exclusive borrow
\* means no call on this limiter is in progress
UpdateConfig ==
    /\ \A p \in Procs : rp[p].pc = "idle"
    /\ \E c \in Configs : c # config /\ config' = c
    /\ UNCHANGED << now, ctor, keyed, cvars, available_tokens, last, requests_per_second, max_bucket_size,
                    check_every_n_seconds, tokens_lock, last_lock, rp, rcalls, consumed >>

\* the clock advances (rate limiter runs)
Advance ==
    /\ now < RMaxTime
    /\ now' = now + 1
    /\ UNCHANGED << cvars, rvars, ctor, keyed >>

\* ------------------------------------------------------------------ Init
CacheFresh ==
    /\ cache = EmptyMap
    /\ stats = CacheStats_default
    /\ cache_lock = Unlocked
    /\ stats_lock = Unlocked
    /\ cp = [p \in Procs |-> IdleCall]
    /\ calls = [p \in Procs |-> 0]
    /\ latest = EmptyMap
    /\ seen = 0
    /\ done = NotRecorded

\* (variant: the bucket starts full)
LimiterFresh_full ==
    /\ available_tokens = max_bucket_size
    /\ last = None
    /\ tokens_lock = NoProc
    /\ last_lock = NoProc
    /\ rp = [p \in Procs |-> IdleAcq]
    /\ rcalls = [p \in Procs |-> 0]
    /\ consumed = [n |-> 0, t0 |-> 0, ok |-> 0, started |-> << >>]

\* InMemoryRateLimiter::new: one token, no last refill
LimiterFresh ==
    /\ available_tokens = TokenUnit
    /\ last = None
    /\ tokens_lock = NoProc
    /\ last_lock = NoProc
    /\ rp = [p \in Procs |-> IdleAcq]
    /\ rcalls = [p \in Procs |-> 0]
    /\ consumed = [n |-> 0, t0 |-> 0, ok |-> 0, started |-> << >>]

\* no generate_key call is under study
NoKeys == [pc |-> "none", a |-> << "", "" >>, b |-> << "", "" >>, ka |-> "", kb |-> "",
           res |-> "", data |-> ""]

\* both constructors have returned an instance built from the values the
\* fields hold
Constructed ==
    ctor = [limiter |-> "ok", cache |-> "ok",
            requests_per_second |-> Finite(requests_per_second),
            check_every_n_seconds |-> Finite(check_every_n_seconds),
            max_bucket_size |-> Finite(max_bucket_size),
            max_size |-> max_size]

CacheInit ==
    /\ now = 0
    /\ keyed = NoKeys
    /\ CacheFresh
    /\ max_size \in {None, Some(1), Some(2)}
    /\ with_max_size(max_size) = "ok"
    /\ default_ttl \in {None, Some(0)}
    /\ requests_per_second = TokenUnit
    /\ max_bucket_size = TokenUnit
    /\ check_every_n_seconds = 1
    /\ config = RateLimiterConfig(TRUE, 2, 1, 0)
    /\ LimiterFresh
    /\ Constructed

RLInit ==
    /\ now = 0
    /\ keyed = NoKeys
    /\ requests_per_second \in {1, 3}
    /\ max_bucket_size \in {TokenUnit, 2 * TokenUnit}
    /\ check_every_n_seconds = 1
    /\ InMemoryRateLimiter_new(Finite(requests_per_second), Finite(check_every_n_seconds),
                               Finite(max_bucket_size)) = "ok"
    /\ LimiterFresh
    /\ config \in {RateLimiterConfig(TRUE, 2, 1, r) : r \in {0, 2}}
    /\ CacheFresh
    /\ max_size = None
    /\ default_ttl = None
    /\ Constructed

CacheNext ==
    \/ Tick
    \/ \E p \in Procs :
         \/ Call(p)
         \/ TryWrite(p)
         \/ ReturnErr(p)
         \/ WriteCache(p)
         \/ WriteStats(p)
         \/ LookupBody(p)
         \/ UpdateBody(p)
         \/ ClearBody(p)
         \/ Counters(p)
         \/ ReadStats(p)
         \/ ReadCache(p)
         \/ ReturnRead(p)

RLNext ==
    \/ Advance
    \/ UpdateConfig
    \/ \E p \in Procs :
         \/ Acquire(p)
         \/ LockTokens(p)
         \/ LockLast(p)
         \/ Refill(p)
         \/ Take(p)
         \/ Resume(p)
         \/ Wake(p)
         \/ AvailableTokens(p)
         \/ Return(p)

\* ---- blocking aacquire calls only, under fair scheduling: every call in
\* progress keeps being polled, sleeps end, and the clock advances; the order
\* in which the calls began is recorded
LiveAcquire(p) ==
    /\ rp[p].pc = "idle"
    /\ rcalls[p] < RBudget[p]
    /\ rcalls' = [rcalls EXCEPT ![p] = @ + 1]
    /\ rp' = [rp EXCEPT ![p] = [IdleAcq EXCEPT !.pc = "lock_tokens", !.op = "aacquire",
                                               !.blocking = TRUE]]
    /\ consumed' = [consumed EXCEPT !.started = Append(@, p)]
    /\ UNCHANGED << now, ctor, keyed, cvars, available_tokens, last, requests_per_second,
                    max_bucket_size, check_every_n_seconds, config, tokens_lock, last_lock >>

Polled(p) ==
    \/ LockTokens(p)
    \/ LockLast(p)
    \/ Refill(p)
    \/ Take(p)
    \/ Resume(p)
    \/ Wake(p)
    \/ Return(p)

LiveNext ==
    \/ Advance
    \/ \E p \in Procs :
         \/ LiveAcquire(p)
         \/ LockTokens(p)
         \/ LockLast(p)
         \/ Refill(p)
         \/ Take(p)
         \/ Resume(p)
         \/ Wake(p)
         \/ Return(p)

SpecLive ==
    /\ RLInit
    /\ [][LiveNext]_vars
    /\ WF_vars(Advance)
    /\ \A p \in Procs : WF_vars(Polled(p))

\* ---- the synchronous entry point beside the asynchronous ones.
\* Where acquire is called from: a plain thread (no runtime: it builds one),
\* a thread that has entered a runtime or runs under spawn_blocking
\* (Handle::try_current is Ok and block_on drives the future), or a task of
\* the runtime (Handle::try_current is Ok and block_on panics: the thread is
\* already driving asynchronous tasks)
Contexts == {"thread", "entered", "task"}

\* InMemoryRateLimiter::acquire / AdvancedRateLimiter::acquire: entry
SyncAcquire(p) ==
    /\ rp[p].pc = "idle"
    /\ rcalls[p] < RBudget[p]
    /\ rcalls' = [rcalls EXCEPT ![p] = @ + 1]
    /\ \E blocking \in BOOLEAN, context \in Contexts :
         rp' = [rp EXCEPT ![p] =
                  IF context = "task"
                  THEN [IdleAcq EXCEPT !.pc = "ret", !.op = "acquire", !.blocking = blocking,
                                       !.res = "panic"]
                  ELSE [IdleAcq EXCEPT !.pc = "lock_tokens", !.op = "acquire",
                                       !.blocking = blocking]]
    /\ UNCHANGED << now, ctor, keyed, cvars, available_tokens, last, requests_per_second,
                    max_bucket_size, check_every_n_seconds, config, tokens_lock, last_lock,
                    consumed >>

SyncNext ==
    \/ Advance
    \/ \E p \in Procs :
         \/ SyncAcquire(p)
         \/ Acquire(p)
         \/ LockTokens(p)
         \/ LockLast(p)
         \/ Refill(p)
         \/ Take(p)
         \/ Resume(p)
         \/ Wake(p)
         \/ Return(p)

SpecSync == RLInit /\ [][SyncNext]_vars

\* ---- construction: the arguments are drawn, then the constructors run
RpsArgs == {NaN, Finite(-1), Finite(0), Finite(1), Finite(3)}
CheckArgs == {NaN, Finite(-1), Finite(0), Finite(1)}
BucketArgs == {NaN, Finite(-1), Finite(0), Finite(1), Finite(TokenUnit), Finite(2 * TokenUnit)}
MaxSizeArgs == {None, Some(0), Some(1), Some(2)}

\* no instance yet: the fields hold nothing
NewInit ==
    /\ now = 0
    /\ keyed = NoKeys
    /\ ctor \in [limiter : {"args"}, cache : {"args"},
                 requests_per_second : RpsArgs, check_every_n_seconds : CheckArgs,
                 max_bucket_size : BucketArgs, max_size : MaxSizeArgs]
    /\ requests_per_second = 0
    /\ max_bucket_size = 0
    /\ check_every_n_seconds = 0
    /\ config = RateLimiterConfig(TRUE, 2, 1, 0)
    /\ available_tokens = 0
    /\ last = None
    /\ tokens_lock = NoProc
    /\ last_lock = NoProc
    /\ rp = [p \in Procs |-> IdleAcq]
    /\ rcalls = [p \in Procs |-> 0]
    /\ consumed = [n |-> 0, t0 |-> 0, ok |-> 0, started |-> << >>]
    /\ CacheFresh
    /\ max_size = None
    /\ default_ttl = None

\* InMemoryRateLimiter::new (AdvancedRateLimiter::new passes its arguments on)
New ==
    /\ ctor.limiter = "args"
    /\ LET r == InMemoryRateLimiter_new(ctor.requests_per_second, ctor.check_every_n_seconds,
                                        ctor.max_bucket_size)
       IN  /\ ctor' = [ctor EXCEPT !.limiter = r]
           /\ IF r = "ok"
              THEN /\ requests_per_second' = ctor.requests_per_second.v
                   /\ check_every_n_seconds' = ctor.check_every_n_seconds.v
                   /\ max_bucket_size' = ctor.max_bucket_size.v
                   /\ available_tokens' = TokenUnit
                   /\ last' = None
              ELSE UNCHANGED << requests_per_second, check_every_n_seconds, max_bucket_size,
                                available_tokens, last >>
    /\ UNCHANGED << now, keyed, cvars, config, tokens_lock, last_lock, rp, rcalls, consumed >>

\* InMemoryCache::with_max_size (InMemoryCache::new and TtlCache::new pass
\* their argument on)
WithMaxSize ==
    /\ ctor.cache = "args"
    /\ LET r == with_max_size(ctor.max_size)
       IN  /\ ctor' = [ctor EXCEPT !.cache = r]
           /\ max_size' = IF r = "ok" THEN ctor.max_size ELSE max_size
    /\ cache' = EmptyMap
    /\ stats' = CacheStats_default
    /\ UNCHANGED << now, default_ttl, cache_lock, stats_lock, cp, calls, latest, seen, rvars, keyed, done >>

NewNext == New \/ WithMaxSize

\* ---- generate_key on any two (prompt, llm_string) pairs: the callers'
\* strings are arbitrary, so they may hold the delimiter
Strs == {"a", "b", "a|||a"}
Pairs == Strs \X Strs

KeyInit ==
    /\ now = 0
    /\ keyed \in {[NoKeys EXCEPT !.pc = "args", !.a = a, !.b = b] : a \in Pairs, b \in Pairs}
    /\ CacheFresh
    /\ max_size = None
    /\ default_ttl = None
    /\ requests_per_second = TokenUnit
    /\ max_bucket_size = TokenUnit
    /\ check_every_n_seconds = 1
    /\ config = RateLimiterConfig(TRUE, 2, 1, 0)
    /\ LimiterFresh
    /\ Constructed

\* InMemoryCache::generate_key, called for each of the two pairs
GenerateKeys ==
    /\ keyed.pc = "args"
    /\ keyed' = [keyed EXCEPT !.pc = "keys",
                              !.ka = generate_key(keyed.a[1], keyed.a[2]),
                              !.kb = generate_key(keyed.b[1], keyed.b[2])]
    /\ UNCHANGED << now, ctor, cvars, rvars >>

\* update(prompt, llm_string, v) of the first pair on the fresh store
KeyUpdate ==
    /\ keyed.pc = "keys"
    /\ \E return_val \in {Values[i] : i \in 1..Len(Values)} :
         /\ cache' = InMemoryCache_update(cache, max_size, keyed.ka, return_val, << >>, now)
         /\ stats' = [stats EXCEPT !.updates = @ + 1]
    /\ keyed' = [keyed EXCEPT !.pc = "stored"]
    /\ UNCHANGED << now, ctor, max_size, default_ttl, cache_lock, stats_lock, cp, calls,
                    latest, seen, done, rvars >>

\* lookup(prompt, llm_string) of the second pair
KeyLookup ==
    /\ keyed.pc = "stored"
    /\ LET l == InMemoryCache_lookup(cache, keyed.kb, now)
       IN  /\ cache' = l.cache
           /\ stats' = IF l.res = "Some" THEN [stats EXCEPT !.hits = @ + 1]
                                         ELSE [stats EXCEPT !.misses = @ + 1]
           /\ keyed' = [keyed EXCEPT !.pc = "looked", !.res = l.res, !.data = l.data]
    /\ UNCHANGED << now, ctor, max_size, default_ttl, cache_lock, stats_lock, cp, calls,
                    latest, seen, done, rvars >>

KeyNext == GenerateKeys \/ KeyUpdate \/ KeyLookup

SpecKey == KeyInit /\ [][KeyNext]_vars

\* ---- one caller making synchronous calls one after the other, as the tests
\* of caches.rs do; the calls made are recorded in order
SeqCaller == "p1"
SeqCalls == MaxCalls + 1

SeqInit ==
    /\ now = 0
    /\ keyed = NoKeys
    /\ cache = EmptyMap
    /\ stats = CacheStats_default
    /\ cache_lock = Unlocked
    /\ stats_lock = Unlocked
    /\ cp = [p \in Procs |-> IdleCall]
    /\ calls = [p \in Procs |-> 0]
    /\ latest = EmptyMap
    /\ seen = 0
    /\ done = [on |-> TRUE, ops |-> << >>]
    /\ max_size \in {Some(1), Some(2)}
    /\ with_max_size(max_size) = "ok"
    /\ default_ttl = None
    /\ requests_per_second = TokenUnit
    /\ max_bucket_size = TokenUnit
    /\ check_every_n_seconds = 1
    /\ config = RateLimiterConfig(TRUE, 2, 1, 0)
    /\ LimiterFresh
    /\ Constructed

\* the caller enters lookup, update or clear
SeqCall ==
    /\ cp[SeqCaller].pc = "idle"
    /\ calls[SeqCaller] < SeqCalls
    /\ calls' = [calls EXCEPT ![SeqCaller] = @ + 1]
    /\ cp' = [cp EXCEPT ![SeqCaller] = [IdleCall EXCEPT !.pc = "cache_lock", !.mode = "sync"]]
    /\ UNCHANGED << now, cache, stats, max_size, default_ttl, cache_lock, stats_lock, latest,
                    seen, done, rvars, ctor, keyed >>

SeqNext ==
    \/ Tick
    \/ SeqCall
    \/ TryWrite(SeqCaller)
    \/ LookupBody(SeqCaller)
    \/ UpdateBody(SeqCaller)
    \/ ClearBody(SeqCaller)
    \/ Counters(SeqCaller)

SpecSeq == SeqInit /\ [][SeqNext]_vars

\* ---- a TtlCache with max_size set, used by one caller through the
\* synchronous and the asynchronous entry points, over a longer time
TtlInit ==
    /\ now = 0
    /\ keyed = NoKeys
    /\ CacheFresh
    /\ max_size = Some(2)
    /\ with_max_size(max_size) = "ok"
    /\ default_ttl \in {Some(1), Some(2)}
    /\ requests_per_second = TokenUnit
    /\ max_bucket_size = TokenUnit
    /\ check_every_n_seconds = 1
    /\ config = RateLimiterConfig(TRUE, 2, 1, 0)
    /\ LimiterFresh
    /\ Constructed

\* the caller enters one of the BaseCache operations of TtlCache
TtlCall ==
    /\ cp[SeqCaller].pc = "idle"
    /\ calls[SeqCaller] < SeqCalls
    /\ calls' = [calls EXCEPT ![SeqCaller] = @ + 1]
    /\ \E mode \in {"sync", "async"} :
         cp' = [cp EXCEPT ![SeqCaller] = [IdleCall EXCEPT !.pc = "cache_lock", !.mode = mode]]
    /\ UNCHANGED << now, cache, stats, max_size, default_ttl, cache_lock, stats_lock, latest,
                    seen, done, rvars, ctor, keyed >>

\* the clock advances
TtlTick ==
    /\ now < TtlMaxTime
    /\ now' = now + 1
    /\ UNCHANGED << cvars, rvars, ctor, keyed >>

TtlNext ==
    \/ TtlTick
    \/ TtlCall
    \/ TryWrite(SeqCaller)
    \/ WriteCache(SeqCaller)
    \/ WriteStats(SeqCaller)
    \/ LookupBody(SeqCaller)
    \/ UpdateBody(SeqCaller)
    \/ ClearBody(SeqCaller)
    \/ Counters(SeqCaller)

SpecTtl == TtlInit /\ [][TtlNext]_vars

SpecNew == NewInit /\ [][NewNext]_vars
SpecCache == CacheInit /\ [][CacheNext]_vars
SpecRL == RLInit /\ [][RLNext]_vars
Spec == SpecCache

Size == Cardinality(DOMAIN cache)

\* ------------------------------------------------------------ cache claims

\* C1: with max_size = Some(n) the number of stored entries never exceeds n.
C1_CapacityInvariant == IsSome(max_size) => Size <= Unwrap(max_size)

\* C2: a lookup of k returns exactly the payload of the most recent update of k
\* for as long as that update is live (k not updated again, evicted, cleared
\* or expired since); it never returns an older payload or another key's.
C2_RoundTrip ==
    \A p \in Procs :
        (cp[p].pc = "counters" /\ cp[p].op \in LookupOps) =>
            IF cp[p].key \in DOMAIN latest
            THEN cp[p].res = "Some" /\ cp[p].data = latest[cp[p].key].val
            ELSE cp[p].res = "None"

C2_Witness ==
    \E p \in Procs :
        /\ cp[p].pc = "counters" /\ cp[p].op \in LookupOps
        /\ cp[p].res = "Some" /\ cp[p].data = "v2"
        /\ stats.updates >= 2
        /\ IsSome(max_size) /\ Size >= Unwrap(max_size)

\* C3: an update on a store that already holds max_size entries removes exactly
\* one entry before the insert, an entry with the oldest last_accessed.
C3_EvictsOldest ==
    [][\A p \in Procs :
         (/\ cp[p].pc = "body" /\ cp'[p].pc = "counters" /\ cp'[p].op \in UpdateOps
          /\ IsSome(max_size) /\ Size >= Unwrap(max_size))
         => \E e \in DOMAIN cache :
              /\ \A j \in DOMAIN cache : cache[e].last_accessed <= cache[j].last_accessed
              /\ DOMAIN cache' = ((DOMAIN cache) \ {e}) \cup {cp'[p].key}]_vars

\* C9: a synchronous lookup, update or clear that cannot take both guards at
\* once ends with the runtime error in that very step (no wait, no retry) and
\* leaves entries, counters and guards as they were, as does its return.
C9_ContentionIsError ==
    [][\A p \in Procs :
         /\ (/\ cp[p].pc = "cache_lock" /\ cp[p].mode = "sync" /\ cp'[p] # cp[p]
             /\ ~(CanWrite(cache_lock) /\ CanWrite(stats_lock)))
            => /\ cp'[p].pc = "failed" /\ cp'[p].res = "Err"
               /\ cache' = cache /\ stats' = stats
               /\ cache_lock' = cache_lock /\ stats_lock' = stats_lock
         /\ (cp[p].pc = "failed" /\ cp'[p] # cp[p])
            => /\ cp'[p].pc = "idle"
               /\ cache' = cache /\ stats' = stats
               /\ cache_lock' = cache_lock /\ stats_lock' = stats_lock]_vars

C9_Witness ==
    \E p \in Procs : cp[p].pc = "failed" /\ cp[p].res = "Err" /\ stats.updates >= 1

\* C10: the value stats() builds is never torn: while it holds its guards no
\* call is between its map mutation and its counter increment, and the value
\* is the counters and the entry count of that state.
C10_SnapshotNotTorn ==
    \A p \in Procs :
        (cp[p].pc = "snap" /\ cp[p].op = "stats") =>
            /\ \A q \in Procs : cp[q].pc # "counters"
            /\ cp[p].snap = [stats EXCEPT !.current_size = Size]

C10_Witness ==
    \E p, q \in Procs :
        /\ cp[p].pc = "snap" /\ cp[p].op = "stats" /\ cp[p].snap.updates >= 1
        /\ cp[p].snap.current_size >= 1
        /\ cp[q].pc = "cache_lock" /\ cp[q].mode = "async"

\* ----------------------------------------------------- rate limiter claims

\* C4: every value available_tokens() can return, and the bucket whenever its
\* mutex is free, has 0 <= available_tokens <= max_bucket_size.
C4_TokenBounds ==
    /\ MutexFree(tokens_lock) =>
         (0 <= available_tokens /\ available_tokens <= max_bucket_size)
    /\ \A p \in Procs :
         rp[p].op = "available_tokens" =>
             (0 <= rp[p].obs /\ rp[p].obs <= max_bucket_size)

C4_Witness ==
    \E p \in Procs :
        /\ rp[p].op = "available_tokens" /\ rp[p].pc = "ret"
        /\ consumed.n >= 2
        /\ rp[p].obs > 0 /\ rp[p].obs < TokenUnit

\* C5: a blocking acquire_with_retry makes at most max_retries + 1 attempts
\* (consume steps) before it returns.
C5_BoundedAttempts ==
    \A p \in Procs :
        (rp[p].op = "acquire_with_retry" /\ rp[p].blocking) =>
            rp[p].attempts <= config.max_retries + 1

C7_RefillGrants ==
    \A p \in Procs :
        (/\ rp[p].pc = "after"
         /\ IsSome(rp[p].pre.last)
         /\ (rp[p].t - Unwrap(rp[p].pre.last)) * requests_per_second >= TokenUnit)
        => rp[p].acquired

C7_Witness ==
    \E p \in Procs :
        /\ rp[p].pc = "after" /\ rp[p].op = "aacquire" /\ ~rp[p].blocking
        /\ IsSome(rp[p].pre.last)
        /\ (rp[p].t - Unwrap(rp[p].pre.last)) * requests_per_second = TokenUnit
        /\ rp[p].pre.tokens < TokenUnit
        /\ rp[p].acquired

\* C8: refill and consume are one atomic step on (available_tokens, last):
\* what a consume call leaves and returns is the function consume of the
\* bucket it found when it took the mutexes, whatever the other callers do.
C8_ConsumeAtomic ==
    /\ \A p, q \in Procs :
         (p # q /\ rp[p].pc \in {"lock_last", "refill", "take"})
            => rp[q].pc \notin {"lock_last", "refill", "take"}
    /\ \A p \in Procs :
         rp[p].pc = "after" =>
            LET c == consume(rp[p].pre, rp[p].t, requests_per_second, max_bucket_size)
            IN  /\ rp[p].post = Bucket(c.tokens, c.last)
                /\ rp[p].acquired = c.acquired

C8_Witness ==
    \E p, q \in Procs :
        /\ p # q
        /\ rp[p].pc = "after" /\ rp[p].acquired
        /\ rp[q].pc = "take" /\ rp[q].pre = rp[p].post
        /\ consumed.n >= 2

\* ------------------------------------------- cache claims, second group

\* the step in which caller p runs the map part of its call, and the step in
\* which it updates the counters and returns
BodyStep(p) == cp[p].pc = "body" /\ cp'[p].pc = "counters"
CountersStep(p) == cp[p].pc = "counters" /\ cp'[p].pc = "idle"

\* C11: in a TtlCache a lookup of a stored key whose age (now - created_at)
\* exceeds default_ttl returns None and removes that entry (and no other), and
\* its counter step adds 1 to misses only; a lookup of a stored key whose age
\* does not exceed default_ttl returns its payload, keeps the entry, and its
\* counter step adds 1 to hits only.
C11_TtlLookup ==
    [][\A p \in Procs :
         IsSome(default_ttl) =>
           /\ (BodyStep(p) /\ cp'[p].op \in LookupOps /\ cp'[p].key \in DOMAIN cache)
              => LET k == cp'[p].key
                 IN  IF now - cache[k].created_at > Unwrap(default_ttl)
                     THEN /\ cp'[p].res = "None"
                          /\ cache' = MapRemove(cache, k)
                     ELSE /\ cp'[p].res = "Some"
                          /\ cp'[p].data = cache[k].data
                          /\ DOMAIN cache' = DOMAIN cache
                          /\ cache'[k].data = cache[k].data
                          /\ cache'[k].created_at = cache[k].created_at
           /\ (CountersStep(p) /\ cp[p].op \in LookupOps)
              => IF cp[p].res = "None"
                 THEN stats' = [stats EXCEPT !.misses = @ + 1]
                 ELSE stats' = [stats EXCEPT !.hits = @ + 1]]_vars

C11_Witness ==
    \E p \in Procs :
        /\ IsSome(default_ttl) /\ ~IsSome(max_size)
        /\ cp[p].pc = "counters" /\ cp[p].op \in LookupOps /\ cp[p].res = "None"
        /\ stats.updates >= 1 /\ stats.clears = 0 /\ stats.misses = 0 /\ stats.hits >= 1
        /\ Size = 0

\* C12: the counter step of a lookup adds 1 to exactly one counter, hits when
\* it returns a payload and misses when it returns None; the counter step of
\* an update adds 1 to updates and leaves hits, misses and clears alone; no
\* other step touches the counters, and none of hits, misses, updates, clears
\* ever decreases.
C12_CountersExact ==
    [][/\ \A p \in Procs :
            CountersStep(p) =>
               /\ cp[p].op \in LookupOps =>
                    stats' = IF cp[p].res = "Some"
                             THEN [stats EXCEPT !.hits = @ + 1]
                             ELSE [stats EXCEPT !.misses = @ + 1]
               /\ cp[p].op \in UpdateOps =>
                    /\ stats'.updates = stats.updates + 1
                    /\ stats'.hits = stats.hits /\ stats'.misses = stats.misses
                    /\ stats'.clears = stats.clears
       /\ stats' # stats => \E p \in Procs : CountersStep(p)
       /\ stats'.hits >= stats.hits /\ stats'.misses >= stats.misses
       /\ stats'.updates >= stats.updates /\ stats'.clears >= stats.clears]_vars

C12_Witness ==
    /\ stats.hits >= 1 /\ stats.misses >= 1 /\ stats.updates >= 1
    /\ \E p \in Procs : cp[p].pc = "counters" /\ cp[p].op \in LookupOps

\* C13: clear empties the map and leaves the counters alone in its map part;
\* its counter step adds 1 to clears and leaves hits, misses, updates and
\* max_size_reached as they were; a lookup of a key that is not stored (as
\* every key is after a clear, until it is updated) returns None.
C13_ClearFrame ==
    [][\A p \in Procs :
         /\ (BodyStep(p) /\ cp'[p].op \in ClearOps)
            => cache' = EmptyMap /\ stats' = stats
         /\ (CountersStep(p) /\ cp[p].op \in ClearOps)
            => /\ stats' = [stats EXCEPT !.clears = @ + 1]
               /\ cache = EmptyMap /\ cache' = EmptyMap
         /\ (BodyStep(p) /\ cp'[p].op \in LookupOps /\ cp'[p].key \notin DOMAIN cache)
            => cp'[p].res = "None" /\ cache' = cache]_vars

C13_Witness ==
    \E p \in Procs :
        /\ cp[p].pc = "counters" /\ cp[p].op \in ClearOps
        /\ stats.updates >= 1 /\ stats.hits >= 1 /\ stats.max_size_reached >= 1
        /\ Size = 0

\* C20: whenever a call has taken both guards and is about to run its map
\* part, the synchronous and the asynchronous form of lookup, of update and of
\* clear give, for every key, payload and iteration order, the same result,
\* the same entries with the same metadata and the same counters, for
\* InMemoryCache and for TtlCache; and either form holds both guards then.
C20_SyncAsyncEquivalent ==
    \A p \in Procs :
        cp[p].pc = "body" =>
          /\ cache_lock.writer = p /\ stats_lock.writer = p
          /\ \A i \in 1..Len(Requests) :
               LET key == generate_key(Requests[i][1], Requests[i][2])
               IN  /\ InMemoryCache_lookup(cache, key, now) = InMemoryCache_alookup(cache, key, now)
                   /\ IsSome(default_ttl) =>
                         TtlCache_lookup(cache, key, Unwrap(default_ttl), now)
                           = TtlCache_alookup(cache, key, Unwrap(default_ttl), now)
                   /\ \A j \in 1..Len(Values), order \in Orders(DOMAIN cache) :
                         InMemoryCache_update(cache, max_size, key, Values[j], order, now)
                           = InMemoryCache_aupdate(cache, max_size, key, Values[j], order, now)
          /\ \A res \in {"Some", "None"} :
               StatsAfter(stats, "lookup", res, Size) = StatsAfter(stats, "alookup", res, Size)
          /\ StatsAfter(stats, "update", "Ok", Size) = StatsAfter(stats, "aupdate", "Ok", Size)
          /\ StatsAfter(stats, "clear", "Ok", 0) = StatsAfter(stats, "aclear", "Ok", 0)

C20_Witness ==
    \E p \in Procs :
        /\ cp[p].pc = "body" /\ cp[p].mode = "sync"
        /\ IsSome(max_size) /\ Size >= 2 /\ Size >= Unwrap(max_size)
        /\ \E k \in DOMAIN cache : cache[k].last_accessed < now
        /\ stats.hits >= 1

\* ------------------------------------ rate limiter claims, second group

\* the step in which caller p clamps and takes (the end of a consume call),
\* and any step in which p's own call moves on from position pc
TakeStep(p) == rp[p].pc = "take" /\ rp'[p].pc = "after"
MovesFrom(p, pc) == rp[p].pc = pc /\ rp'[p] # rp[p]

C15_BlockingAcquire ==
    [][\A p \in Procs :
         (rp[p].op = "aacquire" /\ rp[p].blocking) =>
            /\ TakeStep(p) =>
                 IF rp'[p].acquired
                 THEN available_tokens' = Min(available_tokens, max_bucket_size) - TokenUnit
                 ELSE available_tokens' = available_tokens
            /\ MovesFrom(p, "after") =>
                 IF rp[p].acquired
                 THEN rp'[p].pc = "ret" /\ rp'[p].res = "true"
                 ELSE /\ rp'[p].pc = "sleep"
                      /\ rp'[p].wake = now + check_every_n_seconds
                      /\ rp'[p].attempts = rp[p].attempts
            /\ MovesFrom(p, "sleep") =>
                 rp'[p].pc = "lock_tokens" /\ now >= rp[p].wake
            /\ MovesFrom(p, "ret") => rp'[p].pc = "idle"
            /\ rp'[p].res \in {"none", "true"}]_vars

C15_Witness ==
    \E p \in Procs :
        /\ rp[p].op = "aacquire" /\ rp[p].blocking
        /\ rp[p].pc = "ret" /\ rp[p].res = "true" /\ rp[p].attempts >= 3

\* C16: a non-blocking acquire_with_retry makes exactly one inner attempt; when
\* it finds no token it returns false at once, without sleeping, without
\* retrying and without the rate-limit-exceeded error, whatever max_retries is.
C16_NonBlockingRetry ==
    [][\A p \in Procs :
         (rp[p].op = "acquire_with_retry" /\ ~rp[p].blocking) =>
            /\ TakeStep(p) => rp'[p].attempts = 1
            /\ MovesFrom(p, "after") =>
                 /\ rp'[p].pc = "ret"
                 /\ rp'[p].res = IF rp[p].acquired THEN "true" ELSE "false"
                 /\ rp'[p].retries = 0
            /\ MovesFrom(p, "ret") => rp'[p].pc = "idle"
            /\ rp'[p].pc # "sleep"
            /\ rp'[p].res # "RateLimitExceeded"]_vars

C16_Witness ==
    \E p \in Procs :
        /\ rp[p].op = "acquire_with_retry" /\ ~rp[p].blocking
        /\ rp[p].pc = "ret" /\ rp[p].res = "false"
        /\ config.max_retries = 0

\* C17: a blocking acquire_with_retry never returns false or the
\* rate-limit-exceeded error: after an attempt that found no token it keeps
\* waiting, however many attempts max_retries would allow, and after the
\* attempt that acquires it returns true.
C17_BlockingRetryWaits ==
    [][\A p \in Procs :
         (rp[p].op = "acquire_with_retry" /\ rp[p].blocking) =>
            /\ MovesFrom(p, "after") =>
                 IF rp[p].acquired
                 THEN rp'[p].pc = "ret" /\ rp'[p].res = "true"
                 ELSE rp'[p].pc = "sleep"
            /\ MovesFrom(p, "sleep") => rp'[p].pc = "lock_tokens"
            /\ rp'[p].res \in {"none", "true"}]_vars

C17_Witness ==
    \E p \in Procs :
        /\ rp[p].op = "acquire_with_retry" /\ rp[p].blocking
        /\ rp[p].pc = "ret" /\ rp[p].res = "true"
        /\ rp[p].attempts > config.max_retries + 1
        /\ consumed.n >= 2

\* C18: update_config replaces the retry policy and nothing else: the token
\* count, the last refill time, the rate, the check interval, the bucket size
\* and both mutexes are as before; an acquire_with_retry started afterwards
\* starts from the initial backoff of the policy then in force.
C18_UpdateConfigFrame ==
    [][/\ config' # config =>
            /\ available_tokens' = available_tokens /\ last' = last
            /\ requests_per_second' = requests_per_second
            /\ check_every_n_seconds' = check_every_n_seconds
            /\ max_bucket_size' = max_bucket_size
            /\ tokens_lock' = tokens_lock /\ last_lock' = last_lock
            /\ config' \in Configs
       /\ \A p \in Procs :
            (rp[p].pc = "idle" /\ rp'[p].op = "acquire_with_retry") =>
                /\ config' = config
                /\ rp'[p].backoff_duration = config.initial_backoff_duration
                /\ rp'[p].retries = 0]_vars

C18_Witness ==
    \E p \in Procs :
        /\ config = RateLimiterConfig(FALSE, 2, 2, 1)
        /\ available_tokens < TokenUnit /\ IsSome(last)
        /\ rp[p].op = "acquire_with_retry" /\ rp[p].pc = "after"
        /\ rp[p].backoff_duration = 2

\* ------------------------------------------------- construction claims

\* C19 as stated: construction is rejected exactly when requests_per_second
\* <= 0, check_every_n_seconds <= 0, max_bucket_size < 1 or max_size is
\* Some(0); every other combination is accepted and stored unchanged.
C19_RejectedIffNonPositive ==
    /\ ctor.limiter # "args" =>
         (ctor.limiter = "panic" <=>
             \/ f64_le(ctor.requests_per_second, Finite(0))
             \/ f64_le(ctor.check_every_n_seconds, Finite(0))
             \/ f64_lt(ctor.max_bucket_size, Finite(TokenUnit)))
    /\ ctor.cache # "args" => (ctor.cache = "panic" <=> ctor.max_size = Some(0))

\* C19 amended: construction is rejected exactly when requests_per_second > 0,
\* check_every_n_seconds > 0 or max_bucket_size >= 1 fails to hold (so for NaN
\* as well as for the values <= 0 and < 1), or max_size is Some(0); a rejected
\* construction stores nothing; an accepted one stores its arguments unchanged
\* and starts with one token and no last refill.
C19_RejectedIffNotPositive ==
    /\ ctor.limiter # "args" =>
         /\ ctor.limiter = "panic" <=>
               \/ ~f64_gt(ctor.requests_per_second, Finite(0))
               \/ ~f64_gt(ctor.check_every_n_seconds, Finite(0))
               \/ ~f64_ge(ctor.max_bucket_size, Finite(TokenUnit))
         /\ ctor.limiter = "ok" =>
               /\ Finite(requests_per_second) = ctor.requests_per_second
               /\ Finite(check_every_n_seconds) = ctor.check_every_n_seconds
               /\ Finite(max_bucket_size) = ctor.max_bucket_size
         /\ ctor.limiter = "panic" =>
               /\ requests_per_second = 0 /\ check_every_n_seconds = 0
               /\ max_bucket_size = 0 /\ available_tokens = 0
    /\ ctor.cache # "args" =>
         /\ ctor.cache = "panic" <=> ctor.max_size = Some(0)
         /\ ctor.cache = "ok" => max_size = ctor.max_size
         /\ ctor.cache = "panic" => max_size = None

C19_Witness ==
    /\ ctor.limiter = "panic" /\ ctor.cache = "panic"
    /\ ctor.requests_per_second = NaN
    /\ f64_gt(ctor.check_every_n_seconds, Finite(0))
    /\ f64_ge(ctor.max_bucket_size, Finite(TokenUnit))

\* ---------------------------------------------------------- key generation

\* C21: generate_key is deterministic and identifies the (prompt, llm_string)
\* pair: two pairs have the same key exactly when they are the same pair, so a
\* lookup of a pair other than the updated one misses; and the two arguments
\* are not interchangeable (a pair and its swap have different keys unless the
\* two strings are equal).
C21_KeyIdentifiesPair ==
    /\ keyed.pc \in {"keys", "stored", "looked"} =>
          /\ keyed.ka = generate_key(keyed.a[1], keyed.a[2])
          /\ (keyed.ka = keyed.kb) <=> (keyed.a = keyed.b)
          /\ (keyed.b = << keyed.a[2], keyed.a[1] >> /\ keyed.a[1] # keyed.a[2])
                => keyed.ka # keyed.kb
    /\ (keyed.pc = "looked" /\ keyed.a # keyed.b) => keyed.res = "None"

\* ------------------------------------------------------ more cache claims

\* C22: a lookup of a key that was not updated since construction or since the
\* most recent clear returns None: the store starts empty, a key enters it
\* only by an update of that key, a clear empties it, and a lookup of a key
\* that is not stored returns None.
C22_UnwrittenMisses ==
    /\ cache = EmptyMap
    /\ [][\A p \in Procs :
             /\ \A k \in (DOMAIN cache') \ (DOMAIN cache) :
                  \E q \in Procs :
                      BodyStep(q) /\ cp'[q].op \in UpdateOps /\ cp'[q].key = k
             /\ (BodyStep(p) /\ cp'[p].op \in ClearOps) => DOMAIN cache' = {}
             /\ (BodyStep(p) /\ cp'[p].op \in LookupOps /\ cp'[p].key \notin DOMAIN cache)
                   => cp'[p].res = "None"]_vars

C22_Witness ==
    \E p \in Procs :
        /\ cp[p].pc = "counters" /\ cp[p].op \in LookupOps /\ cp[p].res = "None"
        /\ cp[p].key = generate_key(Requests[1][1], Requests[1][2])
        /\ DOMAIN cache = {generate_key(Requests[2][1], Requests[2][2])}
        /\ stats.clears >= 1 /\ stats.updates >= 2
        /\ max_size = None /\ default_ttl = None

\* C23: a lookup hit makes the entry the most recently used and adds 1 to its
\* access_count, and a miss changes no entry; so with max_size = 2 the calls
\* update A, update B, lookup A, update C, made in that order, end with B
\* evicted and A and C stored.
KeyOf(i) == generate_key(Requests[i][1], Requests[i][2])

C23_HitProtects ==
    [][\A p \in Procs :
         /\ (BodyStep(p) /\ cp'[p].op \in LookupOps /\ cp'[p].res = "Some") =>
               LET k == cp'[p].key
               IN  /\ k \in DOMAIN cache /\ DOMAIN cache' = DOMAIN cache
                   /\ cache'[k].last_accessed = now
                   /\ \A j \in DOMAIN cache' :
                        cache'[j].last_accessed <= cache'[k].last_accessed
                   /\ cache'[k].access_count = cache[k].access_count + 1
                   /\ \A j \in (DOMAIN cache) \ {k} : cache'[j] = cache[j]
         /\ (BodyStep(p) /\ cp'[p].op \in LookupOps /\ cp'[p].res = "None") =>
               cache' = cache
         /\ (/\ BodyStep(p) /\ max_size = Some(2)
             /\ done'.ops = << << "update", KeyOf(1) >>, << "update", KeyOf(2) >>,
                               << "lookup", KeyOf(1) >>, << "update", KeyOf(3) >> >>)
            => DOMAIN cache' = {KeyOf(1), KeyOf(3)}]_vars

\* ------------------------------------------------- more rate limiter claims

\* C24: each iteration of acquire_with_retry makes one consume step that
\* returns at once, so the retry counter advances by 1 with every failed
\* consume step and the call sleeps only between attempts, for the backoff:
\* a call never has more consume steps behind it than retries + 1, and while
\* it sleeps every consume step it made has been counted as a retry.
C24_OneConsumePerIteration ==
    \A p \in Procs :
        rp[p].op = "acquire_with_retry" =>
            /\ rp[p].attempts <= rp[p].retries + 1
            /\ rp[p].pc = "sleep" => rp[p].retries = rp[p].attempts

\* ------------------------------------------------- cache concurrency claims

\* a call in progress whose next step is an .await on a guard it cannot get
Blocked(p) ==
    \/ cp[p].mode = "async" /\ cp[p].pc = "cache_lock" /\ ~CanWrite(cache_lock)
    \/ cp[p].mode = "async" /\ cp[p].pc = "stats_lock" /\ ~CanWrite(stats_lock)
    \/ cp[p].mode = "stats" /\ cp[p].pc = "stats_lock" /\ ~CanRead(stats_lock)
    \/ cp[p].mode \in {"stats", "read"} /\ cp[p].pc = "cache_lock" /\ ~CanRead(cache_lock)

\* C25: concurrent alookup, aupdate, aclear, stats, size and is_empty calls
\* never deadlock, every call completes under fair scheduling: so whenever a
\* call waits for a guard, some call in progress (one that can go on to
\* release guards) is able to take its next step.
C25_NoDeadlock ==
    (\E p \in Procs : Blocked(p)) =>
        \E q \in Procs : cp[q].pc # "idle" /\ ~Blocked(q)

\* C26: a synchronous lookup, update or clear ends with the lock-contention
\* error only while a concurrent mutating call holds a guard for writing;
\* stats, size and is_empty holding guards for reading never make it fail.
C26_OnlyWritersContend ==
    [][\A p \in Procs :
         (cp[p].pc = "cache_lock" /\ cp[p].mode = "sync" /\ cp'[p].pc = "failed")
         => \E q \in Procs \ {p} : cache_lock.writer = q \/ stats_lock.writer = q]_vars

\* ------------------------------------------------- rate limiter rate claims

C28_RefillStep ==
    [][/\ \A p \in Procs :
            (rp[p].pc = "refill" /\ rp'[p].pc = "take") =>
                IF ~IsSome(last)
                THEN last' = Some(now) /\ available_tokens' = available_tokens
                ELSE IF (now - Unwrap(last)) * requests_per_second >= TokenUnit
                     THEN /\ available_tokens' =
                               available_tokens + (now - Unwrap(last)) * requests_per_second
                          /\ last' = Some(now)
                     ELSE available_tokens' = available_tokens /\ last' = last
       /\ IsSome(last) => (IsSome(last') /\ Unwrap(last') >= Unwrap(last))]_vars

C28_Witness ==
    \E p \in Procs :
        /\ rp[p].pc = "take" /\ IsSome(rp[p].pre.last)
        /\ (rp[p].t - Unwrap(rp[p].pre.last)) * requests_per_second > TokenUnit
        /\ available_tokens =
             rp[p].pre.tokens + (rp[p].t - Unwrap(rp[p].pre.last)) * requests_per_second
        /\ last = Some(rp[p].t)

\* ------------------------------------------------------ cache frame claims

\* C29: a key leaves the store only (a) in the map part of an update on a
\* store at capacity, (b) in a TtlCache lookup of that very key once it has
\* expired, or (c) in a clear.  A lookup on a plain InMemoryCache never
\* changes the set of keys; an expired entry that is not looked up stays
\* stored, and counted, until (a) or (c).
C29_LeavesOnlyBy ==
    [][/\ \A k \in (DOMAIN cache) \ (DOMAIN cache') :
            \E p \in Procs :
                /\ BodyStep(p)
                /\ \/ /\ cp'[p].op \in UpdateOps
                      /\ IsSome(max_size) /\ Size >= Unwrap(max_size)
                   \/ /\ cp'[p].op \in LookupOps /\ cp'[p].key = k
                      /\ IsSome(default_ttl)
                      /\ now - cache[k].created_at > Unwrap(default_ttl)
                   \/ cp'[p].op \in ClearOps
       /\ \A p \in Procs :
            (BodyStep(p) /\ cp'[p].op \in LookupOps /\ ~IsSome(default_ttl))
                => DOMAIN cache' = DOMAIN cache]_vars

C29_Witness ==
    /\ IsSome(default_ttl) /\ max_size = None
    /\ stats.updates >= 2 /\ stats.misses >= 1 /\ stats.clears = 0
    /\ \E k \in DOMAIN cache : now - cache[k].created_at > Unwrap(default_ttl)
    /\ \E p \in Procs :
         cp[p].pc = "snap" /\ cp[p].op = "size" /\ cp[p].snap.current_size = 1

\* C30: an update of a key that is already stored replaces only that key's
\* entry: every other entry stays as it was and the number of entries does
\* not change, also when the store holds max_size entries.
C30_UpdateInPlace ==
    [][\A p \in Procs :
         (BodyStep(p) /\ cp'[p].op \in UpdateOps /\ cp'[p].key \in DOMAIN cache)
         => /\ DOMAIN cache' = DOMAIN cache
            /\ \A j \in (DOMAIN cache) \ {cp'[p].key} : cache'[j] = cache[j]]_vars

\* ------------------------------------------------ retry and backoff claims

\* C31: every delay a retrying call sleeps between two attempts is at most
\* max_backoff_duration, and the k-th delay (k = 0, 1, ...) is
\* min(initial_backoff_duration * 2^k, max_backoff_duration) with exponential
\* backoff and initial_backoff_duration without (so the delays never shrink).
C31_BackoffDelays ==
    [][\A p \in Procs :
         (rp[p].op = "acquire_with_retry" /\ rp[p].pc = "after" /\ rp'[p].pc = "sleep")
         => LET k == rp[p].attempts - 1
                d == rp'[p].wake - now
            IN  /\ d <= config.max_backoff_duration
                /\ d = IF config.use_exponential_backoff
                       THEN Min(config.initial_backoff_duration * (2 ^ k),
                                config.max_backoff_duration)
                       ELSE config.initial_backoff_duration]_vars

\* the place of p's latest call in the order the calls began (0: none yet)
LastStart(p) ==
    LET S == {i \in 1..Len(consumed.started) : consumed.started[i] = p}
    IN  IF S = {} THEN 0 ELSE CHOOSE i \in S : \A j \in S : j <= i

\* C32: with time advancing and requests_per_second > 0, a blocking aacquire
\* on the base limiter made while no other caller is or will be active
\* eventually returns true (or, in this model, is asleep until after the last
\* instant RMaxTime of the clock); there is no timeout and no other result.
\* Between concurrent waiters no order holds (see the witness: the later
\* call has its token while the earlier one is still asleep).
C32_BlockingReturnsTrue ==
    \A p \in Procs :
        (/\ rp[p].pc \notin {"idle", "ret"} /\ rp[p].op = "aacquire" /\ rp[p].blocking
         /\ \A q \in Procs \ {p} : rp[q].pc = "idle" /\ rcalls[q] = RBudget[q])
        ~> (\/ rp[p].pc = "ret" /\ rp[p].res = "true"
            \/ rp[p].pc = "sleep" /\ rp[p].wake > RMaxTime)

C32_Witness ==
    \E p, q \in Procs :
        /\ p # q
        /\ 0 < LastStart(p) /\ LastStart(p) < LastStart(q)
        /\ rp[q].pc = "ret" /\ rp[q].res = "true" /\ rp[q].attempts >= 2
        /\ rp[p].pc = "sleep" /\ rp[p].attempts >= 2

\* ------------------------------------------------------------- TTL claims

\* C33: in a TtlCache a lookup hit changes last_accessed (to now) and
\* access_count (by 1) of that entry and nothing else, so created_at and
\* the payload stay those of the most recent update; an update stores the
\* payload with created_at = last_accessed = now and access_count = 0; and a
\* stored key is found exactly while no more than default_ttl has passed since
\* its most recent update, however often it was looked up.
C33_TtlHitFrame ==
    /\ [](IsSome(default_ttl) =>
            \A k \in DOMAIN cache :
                /\ k \in DOMAIN latest
                /\ cache[k].created_at = latest[k].at
                /\ cache[k].data = latest[k].val)
    /\ [][\A p \in Procs :
             (IsSome(default_ttl) /\ BodyStep(p)) =>
                LET k == cp'[p].key
                IN  /\ (cp'[p].op \in LookupOps /\ cp'[p].res = "Some") =>
                          /\ k \in DOMAIN cache
                          /\ cache' = [cache EXCEPT
                                         ![k] = [@ EXCEPT !.last_accessed = now,
                                                          !.access_count = @ + 1]]
                    /\ (cp'[p].op \in LookupOps /\ k \in DOMAIN cache) =>
                          (cp'[p].res = "Some" <=>
                              now - latest[k].at <= Unwrap(default_ttl))
                    /\ cp'[p].op \in UpdateOps =>
                          cache'[k] = [data |-> cp'[p].val, created_at |-> now,
                                       last_accessed |-> now, access_count |-> 0]]_vars

C33_Witness ==
    \E p \in Procs :
        /\ IsSome(default_ttl)
        /\ cp[p].pc = "counters" /\ cp[p].op \in LookupOps /\ cp[p].res = "Some"
        /\ cache[cp[p].key].access_count >= 2
        /\ cache[cp[p].key].last_accessed > cache[cp[p].key].created_at
        /\ now - cache[cp[p].key].created_at > Unwrap(default_ttl)

\* ------------------------------------------- synchronous acquisition claims

\* what the asynchronous entry point `op` does with the consume result that
\* the synchronous call r has in hand
AsAsync(r, op) ==
    LET a == [r EXCEPT !.op = op,
                       !.backoff_duration = IF op = "acquire_with_retry"
                                            THEN config.initial_backoff_duration ELSE 0]
        b == ClearGhost(AfterConsume(a, now, check_every_n_seconds, config))
    IN  [b EXCEPT !.op = r.op, !.backoff_duration = r.backoff_duration,
                  !.retries = r.retries]

\* C34: acquire(blocking) and aacquire(blocking) have the same observable
\* semantics, on InMemoryRateLimiter and on AdvancedRateLimiter: a call of
\* acquire goes on to its consume step as aacquire does, and for the same
\* bucket, clock and flag ends or waits as aacquire (InMemoryRateLimiter) and
\* acquire_with_retry (AdvancedRateLimiter::aacquire) do.
C34_SyncAsAsync ==
    [][\A p \in Procs :
         /\ (rp[p].pc = "idle" /\ rp'[p].op = "acquire")
            => rp'[p] = [IdleAcq EXCEPT !.pc = "lock_tokens", !.op = "acquire",
                                        !.blocking = rp'[p].blocking]
         /\ (rp[p].op = "acquire" /\ MovesFrom(p, "after"))
            => /\ rp'[p] = AsAsync(rp[p], "aacquire")
               /\ rp'[p] = AsAsync(rp[p], "acquire_with_retry")]_vars

\* ------------------------------------------------------- burst on a new limiter

C36_HighWaterMark ==
    /\ []((\A q \in Procs : cp[q].pc # "counters") => stats.max_size_reached >= Size)
    /\ [](\A p \in Procs :
            (cp[p].pc = "snap" /\ cp[p].op = "stats")
            => /\ cp[p].snap.current_size = Size
               /\ cp[p].snap.max_size_reached >= cp[p].snap.current_size)
    /\ [][/\ \A p \in Procs :
               (CountersStep(p) /\ cp[p].op \in UpdateOps)
               => stats'.max_size_reached
                    = Max(stats.max_size_reached, Cardinality(DOMAIN cache'))
          /\ stats'.max_size_reached >= stats.max_size_reached]_vars

C36_Witness ==
    /\ stats.clears >= 1
    /\ stats.max_size_reached >= 2
    /\ \E p \in Procs :
         /\ cp[p].pc = "snap" /\ cp[p].op = "stats"
         /\ cp[p].snap.current_size < cp[p].snap.max_size_reached

\* ------------------------------------------------- eviction and expiry together

\* C37: in a TtlCache with max_size set, the map part of an update at capacity
\* removes no entry that has not expired while an entry that has expired stays
\* in the store.
C37_ExpiredGoFirst ==
    [][\A p \in Procs :
         (/\ IsSome(default_ttl) /\ IsSome(max_size)
          /\ BodyStep(p) /\ cp'[p].op \in UpdateOps
          /\ Size >= Unwrap(max_size))
         => \A k \in DOMAIN cache \ DOMAIN cache' :
               \/ is_expired(cache[k], Unwrap(default_ttl), now)
               \/ \A e \in (DOMAIN cache \cap DOMAIN cache') \ {cp'[p].key} :
                     ~is_expired(cache[e], Unwrap(default_ttl), now)]_vars
====
